---- MODULE Spec2Model ----
(***************************************************************************)
(* A model of the Result module (src/index.ts): the Ok / Err classes, the  *)
(* factories ok, err, resultFrom and asyncResultFrom, the predicates, the  *)
(* unwrap family and the map / bind combinators.                           *)
(*                                                                         *)
(* JavaScript values are records [k, n]; Ok and Err instances live in a    *)
(* heap and are referred to by address, so that "the same instance" is     *)
(* equality of addresses.  A sequential client issues one call at a time,  *)
(* looks at its outcome (last, calls) and drops it before the next call;   *)
(* the call to asyncResultFrom is awaited before the next call is issued.  *)
(***************************************************************************)
EXTENDS Integers, Sequences, FiniteSets

VARIABLES heap, promises, last, calls

vars == <<heap, promises, last, calls>>

\* Largest number of Ok / Err instances alive at once.
MaxHeap == 2

(***************************************************************************)
(* Values                                                                  *)
(***************************************************************************)
Val(k, n) == [k |-> k, n |-> n]

Null == Val("null", 0)

Undef == Val("undefined", 0)

Num(n) == Val("number", n)

Str(n) == Val("string", n)

\* An object literal: its toString is Object.prototype.toString.
PlainObj == Val("object", 0)

\* An object whose class overrides toString.
CustomObj == Val("custom", 0)

\* new TypeError("Err expected")
TypeErr == Val("TypeError", 0)

Ref(a) == Val("ref", a)

PromiseRef(p) == Val("promise", p)

\* The texts of the string values Str(1), Str(2).
StrTable == <<"disk full", "boom">>

BaseVals == {Null, Undef, Num(1), Str(1), PlainObj, CustomObj}

Refs(h) == {Ref(a) : a \in 1..Len(h)}

Vals(h) == BaseVals \cup Refs(h)

\* The payloads the client puts into an Ok.
OkVals == {Null, Undef, Num(1)}

(***************************************************************************)
(* class Ok, class Err                                                     *)
(***************************************************************************)
\* new Ok(value): the constructor stores its argument as it is.
NewOk(value) == [tag |-> "Ok", payload |-> value]

\* new Err(reason)
NewErr(reason) == [tag |-> "Err", payload |-> reason]

\* result instanceof Ok
InstanceOfOk(result, h) == result.k = "ref" /\ h[result.n].tag = "Ok"

\* result instanceof Err
InstanceOfErr(result, h) == result.k = "ref" /\ h[result.n].tag = "Err"

\* reason.toString === Object.prototype.toString: object literals, Ok
\* instances and promises inherit toString from Object.prototype; primitives,
\* errors (Err included) and classes with their own toString do not.
HasObjectToString(v, h) ==
    \/ v.k \in {"object", "promise"}
    \/ InstanceOfOk(v, h)

RECURSIVE StringOf(_, _)
\* toString without the comparison with Object.prototype.toString.
ErrToStringNullOnly(reason, h) ==
    IF reason \in {Null, Undef} THEN "Err" ELSE StringOf(reason, h)

\* Err.prototype.toString
ErrToString(reason, h) ==
    IF reason \in {Null, Undef} \/ HasObjectToString(reason, h)
    THEN "Err"
    ELSE StringOf(reason, h)

\* String(v)
StringOf(v, h) ==
    CASE v.k = "null" -> "null"
      [] v.k = "undefined" -> "undefined"
      [] v.k = "number" -> <<"0", "1", "2">>[v.n + 1]
      [] v.k = "string" -> StrTable[v.n]
      [] v.k = "object" -> "[object Object]"
      [] v.k = "custom" -> "custom"
      [] v.k = "TypeError" -> "TypeError: Err expected"
      [] v.k = "promise" -> "[object Promise]"
      [] v.k = "ref" -> IF h[v.n].tag = "Ok"
                        THEN "[object Object]"
                        ELSE ErrToString(h[v.n].payload, h)

(***************************************************************************)
(* Outcomes of a call: how it ended, with what value, the heap afterwards  *)
(* and the callback invocations it made.                                   *)
(***************************************************************************)
Out(mode, value, h, c) == [mode |-> mode, value |-> value, heap |-> h, calls |-> c]

Return(value, h, c) == Out("return", value, h, c)

Throw(value, h, c) == Out("throw", value, h, c)

\* A parameter with the default initialiser "= null": the default is used
\* when the argument is omitted or is undefined.
DefaultNull(arg) == IF arg = Undef THEN Null ELSE arg

\* ok(value = null)
ok(value, h) ==
    Return(Ref(Len(h) + 1), Append(h, NewOk(DefaultNull(value))), <<>>)

\* err(reason = null)
err(reason, h) ==
    Return(Ref(Len(h) + 1), Append(h, NewErr(DefaultNull(reason))), <<>>)

isOk(result, h) == InstanceOfOk(result, h)

isErr(result, h) == InstanceOfErr(result, h)

\* unwrapOk throwing the reason in place of the Err instance.
unwrapOkThrowsReason(result, h) ==
    IF InstanceOfOk(result, h)
    THEN Return(h[result.n].payload, h, <<>>)
    ELSE Throw(h[result.n].payload, h, <<>>)

unwrapOk(result, h) ==
    IF InstanceOfOk(result, h)
    THEN Return(h[result.n].payload, h, <<>>)
    ELSE Throw(result, h, <<>>)

unwrapErr(result, h) ==
    IF InstanceOfOk(result, h)
    THEN Throw(TypeErr, h, <<>>)
    ELSE Return(h[result.n].payload, h, <<>>)

(***************************************************************************)
(* Callbacks supplied by the caller (fn, catchFn, elseFn).  A callback is  *)
(* a record [kind, v]; Apply is its application to an argument.            *)
(*   const     x => v                 id        x => x                     *)
(*   flip      x => x === 1 ? 2 : 1   throw     x => { throw v }           *)
(*   throwArg  x => { throw x }       unwrapOk  () => unwrapOk(v)          *)
(*   ok        x => ok(x)             err       x => err(x)                *)
(*   promise   x => new Promise(...)  (settled later by the environment)   *)
(***************************************************************************)
Cb(kind, v) == [kind |-> kind, v |-> v]

\* An omitted callback argument.
NoCb == Cb("none", Undef)

Call(f, arg) == [f |-> f, arg |-> arg]

\* f(arg), for the callbacks that return or throw at once.
Apply(f, arg, h) ==
    CASE f.kind = "const" -> Return(f.v, h, <<Call(f, arg)>>)
      [] f.kind = "id" -> Return(arg, h, <<Call(f, arg)>>)
      [] f.kind = "flip" ->
            Return(IF arg = Num(1) THEN Num(2) ELSE Num(1), h, <<Call(f, arg)>>)
      [] f.kind = "throw" -> Throw(f.v, h, <<Call(f, arg)>>)
      [] f.kind = "throwArg" -> Throw(arg, h, <<Call(f, arg)>>)
      [] f.kind = "unwrapOk" ->
            [unwrapOk(f.v, h) EXCEPT !.calls = <<Call(f, arg)>>]
      [] f.kind = "ok" -> [ok(arg, h) EXCEPT !.calls = <<Call(f, arg)>>]
      [] f.kind = "err" -> [err(arg, h) EXCEPT !.calls = <<Call(f, arg)>>]

\* The outcome o of an inner call, with the calls c made before it in front.
After(c, o) == [o EXCEPT !.calls = c \o o.calls]

(***************************************************************************)
(* resultFrom                                                              *)
(***************************************************************************)
\* catchFn: (error) => E = () => null
DefaultCatchFn == Cb("const", Null)

CatchFnOrDefault(catchFn) == IF catchFn = NoCb THEN DefaultCatchFn ELSE catchFn

resultFrom(fn, catchFn, h) ==
    LET t == Apply(fn, Undef, h)
    IN  IF t.mode = "return"
        THEN After(t.calls, ok(t.value, t.heap))
        ELSE LET c == Apply(CatchFnOrDefault(catchFn), t.value, t.heap)
             IN  IF c.mode = "return"
                 THEN After(t.calls \o c.calls, err(c.value, c.heap))
                 ELSE After(t.calls, c)

(***************************************************************************)
(* bindResult, mapOk, mapErr                                               *)
(***************************************************************************)
\* bindResult wrapping what fn returned, as mapOk does.
bindResultRewraps(result, fn, h) ==
    IF InstanceOfOk(result, h)
    THEN LET r == Apply(fn, h[result.n].payload, h)
         IN  IF r.mode = "return" THEN After(r.calls, ok(r.value, r.heap)) ELSE r
    ELSE Return(result, h, <<>>)

bindResult(result, fn, h) ==
    IF InstanceOfOk(result, h)
    THEN Apply(fn, h[result.n].payload, h)
    ELSE Return(result, h, <<>>)

\* mapOk turning an error of fn into an Err.
mapOkCatches(result, fn, h) ==
    IF InstanceOfOk(result, h)
    THEN LET r == Apply(fn, h[result.n].payload, h)
         IN  IF r.mode = "return"
             THEN After(r.calls, ok(r.value, r.heap))
             ELSE After(r.calls, err(r.value, r.heap))
    ELSE Return(result, h, <<>>)

mapOk(result, fn, h) ==
    IF InstanceOfOk(result, h)
    THEN LET r == Apply(fn, h[result.n].payload, h)
         IN  IF r.mode = "return" THEN After(r.calls, ok(r.value, r.heap)) ELSE r
    ELSE Return(result, h, <<>>)

\* mapErr passing an Ok through as a copy.
mapErrCopies(result, fn, h) ==
    IF InstanceOfOk(result, h)
    THEN ok(h[result.n].payload, h)
    ELSE LET r == Apply(fn, h[result.n].payload, h)
         IN  IF r.mode = "return" THEN After(r.calls, err(r.value, r.heap)) ELSE r

mapErr(result, fn, h) ==
    IF InstanceOfOk(result, h)
    THEN Return(result, h, <<>>)
    ELSE LET r == Apply(fn, h[result.n].payload, h)
         IN  IF r.mode = "return" THEN After(r.calls, err(r.value, r.heap)) ELSE r

(***************************************************************************)
(* unwrapOkOr, unwrapOkOrElse, unwrapErrOr, unwrapErrOrElse                *)
(***************************************************************************)
unwrapOkOr(result, defaultValue, h) ==
    IF InstanceOfOk(result, h)
    THEN Return(h[result.n].payload, h, <<>>)
    ELSE Return(defaultValue, h, <<>>)

\* unwrapOkOrElse handing elseFn the Err instance in place of its reason.
unwrapOkOrElsePassesResult(result, elseFn, h) ==
    IF InstanceOfOk(result, h)
    THEN Return(h[result.n].payload, h, <<>>)
    ELSE Apply(elseFn, result, h)

unwrapOkOrElse(result, elseFn, h) ==
    IF InstanceOfOk(result, h)
    THEN Return(h[result.n].payload, h, <<>>)
    ELSE Apply(elseFn, h[result.n].payload, h)

unwrapErrOr(result, defaultReason, h) ==
    IF InstanceOfOk(result, h)
    THEN Return(defaultReason, h, <<>>)
    ELSE Return(h[result.n].payload, h, <<>>)

unwrapErrOrElse(result, elseFn, h) ==
    IF InstanceOfOk(result, h)
    THEN Apply(elseFn, h[result.n].payload, h)
    ELSE Return(h[result.n].payload, h, <<>>)

(***************************************************************************)
(* asyncResultFrom.  The async function runs synchronously up to its first *)
(* await; it is resumed once the awaited value has settled.  A frame is    *)
(* the state of one call: where it is suspended (pc), what it awaits, and  *)
(* the state (mode, value) of the promise it returned.                     *)
(***************************************************************************)
Pending == [state |-> "pending", value |-> Undef]

Settlement(state, value) == [state |-> state, value |-> value]

\* f(arg) where f may also return a new, pending promise.
ApplyAsync(f, arg, h, ps) ==
    IF f.kind = "promise"
    THEN [mode |-> "return", value |-> PromiseRef(Len(ps) + 1), heap |-> h,
          calls |-> <<Call(f, arg)>>, promises |-> Append(ps, Pending)]
    ELSE LET o == Apply(f, arg, h)
         IN  [mode |-> o.mode, value |-> o.value, heap |-> o.heap,
              calls |-> o.calls, promises |-> ps]

Frame(pc, awaited, mode, value, h, ps, c) ==
    [pc |-> pc, awaited |-> awaited, mode |-> mode, value |-> value,
     heap |-> h, promises |-> ps, calls |-> c]

\* await x continues once x is no pending promise.
Settled(x, ps) == x.k = "promise" => ps[x.n].state # "pending"

AwaitState(x, ps) == IF x.k = "promise" THEN ps[x.n].state ELSE "fulfilled"

AwaitValue(x, ps) == IF x.k = "promise" THEN ps[x.n].value ELSE x

\* catch (reason) { return err(await catchFn(reason)); }  up to the await
asyncCatch(reason, catchFn, h, ps, c) ==
    LET r == ApplyAsync(CatchFnOrDefault(catchFn), reason, h, ps)
    IN  IF r.mode = "return"
        THEN Frame("awaitCatch", r.value, "pending", Undef, r.heap, r.promises,
                   c \o r.calls)
        ELSE Frame("done", Undef, "rejected", r.value, r.heap, r.promises,
                   c \o r.calls)

\* try { return ok(await fn()); }  up to the await
asyncResultFrom(fn, catchFn, h, ps) ==
    LET t == ApplyAsync(fn, Undef, h, ps)
    IN  IF t.mode = "return"
        THEN Frame("awaitFn", t.value, "pending", Undef, t.heap, t.promises, t.calls)
        ELSE asyncCatch(t.value, catchFn, t.heap, t.promises, t.calls)

\* The continuation of "await fn()".
resumeFn(awaited, catchFn, h, ps, c) ==
    IF AwaitState(awaited, ps) = "fulfilled"
    THEN LET o == ok(AwaitValue(awaited, ps), h)
         IN  Frame("done", Undef, "fulfilled", o.value, o.heap, ps, c)
    ELSE asyncCatch(AwaitValue(awaited, ps), catchFn, h, ps, c)

\* The continuation of "await catchFn(reason)".
resumeCatch(awaited, h, ps, c) ==
    IF AwaitState(awaited, ps) = "fulfilled"
    THEN LET o == err(AwaitValue(awaited, ps), h)
         IN  Frame("done", Undef, "fulfilled", o.value, o.heap, ps, c)
    ELSE Frame("done", Undef, "rejected", AwaitValue(awaited, ps), h, ps, c)

(***************************************************************************)
(* The client: the arguments it passes                                     *)
(***************************************************************************)
Bool(b) == Val("boolean", IF b THEN 1 ELSE 0)

\* The mark of an argument the client leaves out.
Omitted == Val("omitted", 0)

\* What the callee sees of an argument: an argument left out reads undefined.
Arg(x) == IF x = Omitted THEN Undef ELSE x

\* fn of mapOk / mapErr
MapFns ==
    {Cb("id", Undef), Cb("flip", Undef), Cb("const", Undef),
     Cb("throw", Str(2)), Cb("throwArg", Undef)}

\* fn of bindResult: it returns a Result
BindFns(h) ==
    {Cb("ok", Undef), Cb("err", Undef), Cb("throw", Str(2))}
        \cup {Cb("const", r) : r \in Refs(h)}

\* fn of resultFrom
Thunks(h) ==
    {Cb("const", Num(1)), Cb("const", Undef), Cb("throw", Str(2)), Cb("throw", Null)}
        \cup {Cb("unwrapOk", r) : r \in Refs(h)}

\* catchFn of resultFrom
CatchFns ==
    {NoCb, Cb("id", Undef), Cb("const", Str(1)), Cb("const", Undef),
     Cb("throw", CustomObj)}

ElseFns == {Cb("id", Undef), Cb("flip", Undef), Cb("throw", Str(2))}

Defaults == {Num(2), Undef}

\* What the environment settles a pending promise with.
Settlements ==
    {Settlement("fulfilled", Num(1)), Settlement("fulfilled", Undef),
     Settlement("rejected", Str(2)), Settlement("rejected", Null)}

(***************************************************************************)
(* The state: the heap of Ok / Err instances, the promises of the current  *)
(* asynchronous call, the last call with its outcome, and the callback     *)
(* invocations that call made.                                             *)
(***************************************************************************)
Last(op, result, fn, catchFn, dflt, pc, awaited, mode, value, text) ==
    [op |-> op, result |-> result, fn |-> fn, catchFn |-> catchFn, dflt |-> dflt,
     pc |-> pc, awaited |-> awaited, mode |-> mode, value |-> value, text |-> text]

\* A synchronous call and its outcome o.
Sync(op, result, fn, catchFn, dflt, o) ==
    Last(op, result, fn, catchFn, dflt, "done", Undef, o.mode, o.value, "")

\* The client holds no outcome.
NoCall == Last("none", Undef, NoCb, NoCb, Undef, "done", Undef, "return", Undef, "")

Init ==
    /\ heap = <<>>
    /\ promises = <<>>
    /\ last = NoCall
    /\ calls = <<>>

\* The client is ready to issue a call.
Idle == last = NoCall

\* The call op(result, fn, catchFn, dflt) ends with outcome o.
Finish(op, result, fn, catchFn, dflt, o) ==
    /\ Idle
    /\ Len(o.heap) <= MaxHeap
    /\ heap' = o.heap
    /\ calls' = o.calls
    /\ last' = Sync(op, result, fn, catchFn, dflt, o)
    /\ UNCHANGED promises

NewOkStep ==
    \E v \in OkVals :
        Finish("new Ok", v, NoCb, NoCb, Undef,
               Return(Ref(Len(heap) + 1), Append(heap, NewOk(v)), <<>>))

NewErrStep ==
    \E r \in Vals(heap) :
        Finish("new Err", r, NoCb, NoCb, Undef,
               Return(Ref(Len(heap) + 1), Append(heap, NewErr(r)), <<>>))

\* ok() and ok(v)
OkStep ==
    \E v \in OkVals \cup {Omitted} :
        Finish("ok", v, NoCb, NoCb, Undef, ok(Arg(v), heap))

\* err() and err(r)
ErrStep ==
    \E r \in BaseVals \cup {Omitted} :
        Finish("err", r, NoCb, NoCb, Undef, err(Arg(r), heap))

IsOkStep ==
    \E r \in Refs(heap) :
        Finish("isOk", r, NoCb, NoCb, Undef, Return(Bool(isOk(r, heap)), heap, <<>>))

IsErrStep ==
    \E r \in Refs(heap) :
        Finish("isErr", r, NoCb, NoCb, Undef, Return(Bool(isErr(r, heap)), heap, <<>>))

UnwrapOkStep ==
    \E r \in Refs(heap) : Finish("unwrapOk", r, NoCb, NoCb, Undef, unwrapOk(r, heap))

UnwrapErrStep ==
    \E r \in Refs(heap) : Finish("unwrapErr", r, NoCb, NoCb, Undef, unwrapErr(r, heap))

BindResultStep ==
    \E r \in Refs(heap), f \in BindFns(heap) :
        Finish("bindResult", r, f, NoCb, Undef, bindResult(r, f, heap))

MapOkStep ==
    \E r \in Refs(heap), f \in MapFns :
        Finish("mapOk", r, f, NoCb, Undef, mapOk(r, f, heap))

MapErrStep ==
    \E r \in Refs(heap), f \in MapFns :
        Finish("mapErr", r, f, NoCb, Undef, mapErr(r, f, heap))

UnwrapOkOrStep ==
    \E r \in Refs(heap), d \in Defaults :
        Finish("unwrapOkOr", r, NoCb, NoCb, d, unwrapOkOr(r, d, heap))

UnwrapOkOrElseStep ==
    \E r \in Refs(heap), f \in ElseFns :
        Finish("unwrapOkOrElse", r, f, NoCb, Undef, unwrapOkOrElse(r, f, heap))

UnwrapErrOrStep ==
    \E r \in Refs(heap), d \in Defaults :
        Finish("unwrapErrOr", r, NoCb, NoCb, d, unwrapErrOr(r, d, heap))

UnwrapErrOrElseStep ==
    \E r \in Refs(heap), f \in ElseFns :
        Finish("unwrapErrOrElse", r, f, NoCb, Undef, unwrapErrOrElse(r, f, heap))

ResultFromStep ==
    \E f \in Thunks(heap), g \in CatchFns :
        Finish("resultFrom", Undef, f, g, Undef, resultFrom(f, g, heap))

\* String(e) for an Err e
ToStringStep ==
    \E r \in Refs(heap) :
        /\ Idle
        /\ InstanceOfErr(r, heap)
        /\ last' = Last("toString", r, NoCb, NoCb, Undef, "done", Undef, "return",
                        Undef, ErrToString(heap[r.n].payload, heap))
        /\ calls' = <<>>
        /\ UNCHANGED <<heap, promises>>

\* The frame fr becomes the state of the asynchronous call.
Enter(fn, catchFn, fr) ==
    /\ Len(fr.heap) <= MaxHeap
    /\ heap' = fr.heap
    /\ promises' = fr.promises
    /\ calls' = fr.calls
    /\ last' = Last("asyncResultFrom", Undef, fn, catchFn, Undef, fr.pc, fr.awaited,
                    fr.mode, fr.value, "")

AsyncResultFromStep ==
    \E f \in Thunks(heap) \cup {Cb("promise", Undef)},
       g \in CatchFns \cup {Cb("promise", Undef)} :
        /\ Idle
        /\ Len(heap) < MaxHeap
        /\ Enter(f, g, asyncResultFrom(f, g, heap, <<>>))

\* The environment settles a pending promise.
SettleStep ==
    \E p \in 1..Len(promises), s \in Settlements :
        /\ promises[p].state = "pending"
        /\ promises' = [promises EXCEPT ![p] = s]
        /\ UNCHANGED <<heap, last, calls>>

ResumeFnStep ==
    /\ last.pc = "awaitFn"
    /\ Settled(last.awaited, promises)
    /\ Enter(last.fn, last.catchFn,
             resumeFn(last.awaited, last.catchFn, heap, promises, calls))

ResumeCatchStep ==
    /\ last.pc = "awaitCatch"
    /\ Settled(last.awaited, promises)
    /\ Enter(last.fn, last.catchFn, resumeCatch(last.awaited, heap, promises, calls))

\* The client is done with the outcome of its last call and drops it; the
\* promises of that call are unreachable from then on.  The Ok and Err
\* instances stay.
DropStep ==
    /\ last # NoCall
    /\ last.pc = "done"
    /\ last' = NoCall
    /\ calls' = <<>>
    /\ promises' = <<>>
    /\ UNCHANGED heap

Next ==
    \/ NewOkStep
    \/ NewErrStep
    \/ OkStep
    \/ ErrStep
    \/ IsOkStep
    \/ IsErrStep
    \/ UnwrapOkStep
    \/ UnwrapErrStep
    \/ BindResultStep
    \/ MapOkStep
    \/ MapErrStep
    \/ UnwrapOkOrStep
    \/ UnwrapOkOrElseStep
    \/ UnwrapErrOrStep
    \/ UnwrapErrOrElseStep
    \/ ResultFromStep
    \/ ToStringStep
    \/ AsyncResultFromStep
    \/ SettleStep
    \/ ResumeFnStep
    \/ ResumeCatchStep
    \/ DropStep

Spec == Init /\ [][Next]_vars

(***************************************************************************)
(* Properties.  tag and payload read an instance of the heap directly.     *)
(***************************************************************************)
TagOf(r) == heap[r.n].tag

PayloadOf(r) == heap[r.n].payload

\* The payload a factory is claimed to store for the argument x.
Stored(x) == IF x = Omitted THEN Null ELSE x

\* C1: constructing then observing is coherent for every payload: after
\* ok(v), isOk is true, isErr is false and unwrapOk returns v; after err(r),
\* isOk is false, isErr is true and unwrapErr returns r (null for an omitted
\* argument); every Result satisfies exactly one of isOk and isErr.
C1_ConstructThenObserve ==
    /\ last.op = "ok" =>
          /\ isOk(last.value, heap)
          /\ ~isErr(last.value, heap)
          /\ unwrapOk(last.value, heap).mode = "return"
          /\ unwrapOk(last.value, heap).value = Stored(last.result)
    /\ last.op = "err" =>
          /\ ~isOk(last.value, heap)
          /\ isErr(last.value, heap)
          /\ unwrapErr(last.value, heap).mode = "return"
          /\ unwrapErr(last.value, heap).value = Stored(last.result)
    /\ \A r \in Refs(heap) : isOk(r, heap) # isErr(r, heap)

\* C2: unwrapping the wrong variant raises and never returns: unwrapOk of an
\* Err raises that same Err instance; unwrapErr of an Ok raises the
\* "Err expected" TypeError, which is no Result and does not carry the value.
C2_WrongVariantRaises ==
    /\ (last.op = "unwrapOk" /\ TagOf(last.result) = "Err") =>
          /\ last.mode = "throw"
          /\ last.value = last.result
    /\ (last.op = "unwrapErr" /\ TagOf(last.result) = "Ok") =>
          /\ last.mode = "throw"
          /\ last.value = TypeErr
          /\ last.value # PayloadOf(last.result)

C2_Witness ==
    /\ last.op = "unwrapOk"
    /\ TagOf(last.result) = "Err"
    /\ PayloadOf(last.result) = Str(1)
    /\ last.mode = "throw"

\* C3: on the matching variant, mapOk / mapErr return a new instance of the
\* same variant holding f(payload); f is invoked exactly once, with the
\* original payload, and the instances that existed are left as they were.
C3_MapRewraps ==
    [][(/\ Idle
        /\ last'.op \in {"mapOk", "mapErr"}
        /\ heap[last'.result.n].tag = (IF last'.op = "mapOk" THEN "Ok" ELSE "Err")
        /\ Apply(last'.fn, heap[last'.result.n].payload, heap).mode = "return")
        => (/\ last'.mode = "return"
            /\ last'.value = Ref(Len(heap) + 1)
            /\ Len(heap') = Len(heap) + 1
            /\ heap'[Len(heap) + 1].tag = heap[last'.result.n].tag
            /\ heap'[Len(heap) + 1].payload =
                   Apply(last'.fn, heap[last'.result.n].payload, heap).value
            /\ calls' = <<Call(last'.fn, heap[last'.result.n].payload)>>
            /\ \A a \in 1..Len(heap) : heap'[a] = heap[a])]_vars

C5_ShortCircuit ==
    (\/ last.op \in {"mapOk", "bindResult"} /\ TagOf(last.result) = "Err"
     \/ last.op = "mapErr" /\ TagOf(last.result) = "Ok")
    => (/\ last.mode = "return"
        /\ last.value = last.result
        /\ calls = <<>>)

C5_Witness ==
    /\ last.op = "mapErr"
    /\ TagOf(last.result) = "Ok"
    /\ last.fn.kind = "throw"
    /\ last.mode = "return"

\* What fn() of the last resultFrom / asyncResultFrom did when it was called.
FnOut == Apply(last.fn, Undef, heap)

\* The catchFn in force: the one given, or () => null.
CatchFnUsed == IF last.catchFn = NoCb THEN Cb("const", Null) ELSE last.catchFn

\* C6: resultFrom yields Ok(x) when fn returns x, without invoking catchFn;
\* when fn raises c it yields Err(catchFn(c)) with catchFn invoked once on c;
\* with catchFn omitted it yields Err(null) and never raises.
C6_ResultFrom ==
    last.op = "resultFrom" =>
        /\ FnOut.mode = "return" =>
              /\ last.mode = "return"
              /\ TagOf(last.value) = "Ok"
              /\ PayloadOf(last.value) = FnOut.value
              /\ calls = <<Call(last.fn, Undef)>>
        /\ (FnOut.mode = "throw"
                /\ Apply(CatchFnUsed, FnOut.value, heap).mode = "return") =>
              /\ last.mode = "return"
              /\ TagOf(last.value) = "Err"
              /\ PayloadOf(last.value) = Apply(CatchFnUsed, FnOut.value, heap).value
              /\ calls = <<Call(last.fn, Undef), Call(CatchFnUsed, FnOut.value)>>
        /\ last.catchFn = NoCb =>
              /\ last.mode = "return"
              /\ FnOut.mode = "throw" => PayloadOf(last.value) = Null

\* How the value fn() of the last asyncResultFrom has settled: a promise by
\* its entry in the table (the first one made), a returned value as
\* fulfilled, a synchronous raise as rejected.
FnState ==
    IF last.fn.kind = "promise" THEN promises[1].state
    ELSE IF FnOut.mode = "return" THEN "fulfilled" ELSE "rejected"

FnValue == IF last.fn.kind = "promise" THEN promises[1].value ELSE FnOut.value

\* The same for the value of catchFn(c): its promise is the last one made.
CatchState ==
    IF CatchFnUsed.kind = "promise" THEN promises[Len(promises)].state
    ELSE IF Apply(CatchFnUsed, FnValue, heap).mode = "return"
         THEN "fulfilled" ELSE "rejected"

CatchValue ==
    IF CatchFnUsed.kind = "promise" THEN promises[Len(promises)].value
    ELSE Apply(CatchFnUsed, FnValue, heap).value

\* C7: asyncResultFrom settles in order: it resolves to Ok(v) only once fn's
\* value has resolved with v, and catchFn is then never invoked; if fn raises
\* or its value rejects with c, catchFn is invoked exactly once with c and the
\* call resolves to Err(e) only once catchFn's value has resolved with e; the
\* payload of the resolved Result is never a pending promise.
C7_AsyncSettlesInOrder ==
    (last.op = "asyncResultFrom" /\ last.mode = "fulfilled") =>
        /\ last.pc = "done"
        /\ TagOf(last.value) = "Ok" =>
              /\ FnState = "fulfilled"
              /\ PayloadOf(last.value) = FnValue
              /\ calls = <<Call(last.fn, Undef)>>
        /\ TagOf(last.value) = "Err" =>
              /\ FnState = "rejected"
              /\ calls = <<Call(last.fn, Undef), Call(CatchFnUsed, FnValue)>>
              /\ CatchState = "fulfilled"
              /\ PayloadOf(last.value) = CatchValue
        /\ PayloadOf(last.value).k # "promise"

\* C8: the defaulting extractors select by variant and do not raise:
\* unwrapOkOr gives the value of an Ok and the default for an Err;
\* unwrapOkOrElse gives the value of an Ok without invoking g, and g(reason)
\* for an Err; unwrapErrOr and unwrapErrOrElse the same with the variants
\* swapped; a raise comes only from the else-function.
C8_DefaultingExtractors ==
    /\ last.op \in {"unwrapOkOr", "unwrapErrOr"} =>
          /\ last.mode = "return"
          /\ calls = <<>>
          /\ last.value =
                 IF TagOf(last.result) = (IF last.op = "unwrapOkOr" THEN "Ok" ELSE "Err")
                 THEN PayloadOf(last.result)
                 ELSE last.dflt
    /\ last.op \in {"unwrapOkOrElse", "unwrapErrOrElse"} =>
          IF TagOf(last.result) = (IF last.op = "unwrapOkOrElse" THEN "Ok" ELSE "Err")
          THEN /\ last.mode = "return"
               /\ last.value = PayloadOf(last.result)
               /\ calls = <<>>
          ELSE /\ last.mode = Apply(last.fn, PayloadOf(last.result), heap).mode
               /\ last.value = Apply(last.fn, PayloadOf(last.result), heap).value
               /\ calls = <<Call(last.fn, PayloadOf(last.result))>>

C8_Witness ==
    /\ last.op = "unwrapOkOrElse"
    /\ TagOf(last.result) = "Err"
    /\ PayloadOf(last.result) = Num(1)
    /\ last.fn.kind = "flip"
    /\ last.value = Num(2)

\* The string conversions that are the generic object default.
GenericStrings == {"[object Object]", "[object Promise]"}

Raised(i) == Apply(calls[i].f, calls[i].arg, heap).mode = "throw"

RaisedValue(i) == Apply(calls[i].f, calls[i].arg, heap).value

\* C10: an error raised in a callback is not swallowed: in mapOk, mapErr,
\* bindResult, unwrapOkOrElse and unwrapErrOrElse the call raises what the
\* callback raised; resultFrom and asyncResultFrom catch only around fn, and an
\* error raised (or a rejection produced) by catchFn is raised by resultFrom
\* and rejects the promise of asyncResultFrom.
C10_CallbackErrorsPropagate ==
    /\ (/\ last.op \in {"mapOk", "mapErr", "bindResult", "unwrapOkOrElse",
                        "unwrapErrOrElse"}
        /\ calls # <<>>
        /\ Raised(1)) =>
          /\ last.mode = "throw"
          /\ last.value = RaisedValue(1)
          /\ Len(calls) = 1
    /\ (last.op = "resultFrom" /\ Raised(1)) =>
          /\ Len(calls) = 2
          /\ calls[2].arg = RaisedValue(1)
          /\ IF Raised(2)
             THEN last.mode = "throw" /\ last.value = RaisedValue(2)
             ELSE last.mode = "return"
    /\ (last.op = "asyncResultFrom" /\ FnState = "rejected" /\ last.pc # "awaitFn") =>
          /\ Len(calls) = 2
          /\ calls[2].arg = FnValue
          /\ CatchState = "pending" => last.pc = "awaitCatch" /\ last.mode = "pending"
          /\ (CatchState = "rejected" /\ last.pc = "done") =>
                 last.mode = "rejected" /\ last.value = CatchValue
          /\ (CatchFnUsed.kind # "promise" /\ CatchState = "rejected") =>
                 last.pc = "done"
    /\ (last.op = "asyncResultFrom" /\ last.mode = "rejected") =>
          /\ FnState = "rejected"
          /\ CatchState = "rejected"

C10_Witness ==
    /\ last.op = "mapOk"
    /\ TagOf(last.result) = "Ok"
    /\ last.fn.kind = "throwArg"
    /\ last.mode = "throw"
    /\ last.value = PayloadOf(last.result)

====
